---- MODULE Spec2Model ----
(***************************************************************************)
(* RTCPeerConnection (src/RTCPeerConnection.js) as a state machine.        *)
(*                                                                         *)
(* One step is one turn of the JavaScript thread: the construction of a    *)
(* peer connection, a method call, the native module invoking the callback *)
(* of an earlier request, or DeviceEventEmitter emitting one native event  *)
(* to the listeners that are registered for it.                            *)
(***************************************************************************)
EXTENDS Integers, Sequences, FiniteSets, TLC

\* ------------------------------------------------------------------ bounds
MaxSessions == 2    \* peer connections constructed in SpecMulti
MaxStreams == 2     \* streams held in the _remoteStreams arrays, all together
MaxPending == 1     \* requests whose callback the native module still owes
MaxOverlap == 2     \* setLocalDescription requests outstanding at the same time

\* ------------------------------------------------------------- vocabulary
RTCSignalingState ==
    {"stable", "have-local-offer", "have-remote-offer",
     "have-local-pranswer", "have-remote-pranswer", "closed"}

RTCIceGatheringState == {"new", "gathering", "complete"}

RTCIceConnectionState ==
    {"new", "checking", "connected", "completed", "failed", "disconnected", "closed"}

PEER_CONNECTION_EVENTS ==
    {"connectionstatechange", "icecandidate", "icecandidateerror",
     "iceconnectionstatechange", "icegatheringstatechange", "negotiationneeded",
     "signalingstatechange", "addstream", "removestream"}

\* The native event names the seven listeners of _registerEvents are added for.
NativeEvents ==
    {"peerConnectionOnRenegotiationNeeded", "peerConnectionIceConnectionChanged",
     "peerConnectionSignalingStateChanged", "peerConnectionAddedStream",
     "peerConnectionRemovedStream", "peerConnectionGotICECandidate",
     "peerConnectionIceGatheringChanged"}

\* JavaScript's undefined: an unassigned class field, a find() without a match.
undefined == [undefined |-> TRUE]

\* ------------------------------------------------------------------ state
VARIABLES
    nextPeerConnectionId,  \* line 54: the module-level counter
    signalingState,        \* line 60, per peer connection id as are the next six
    iceGatheringState,     \* line 61
    iceConnectionState,    \* line 62
    localDescription,      \* line 57
    remoteDescription,     \* line 58
    _remoteStreams,        \* line 76: a sequence of streams
    _subscriptions,        \* line 77: the native events the instance listens to
    pending,               \* callbacks handed to WebRTCModule and not yet invoked
    stimulus,              \* what started the last step
    effects,               \* what the last step sent, dispatched, called, threw
    emitted                \* per id, what the engine emitted up to its first 'closed'

vars ==
    <<nextPeerConnectionId, signalingState, iceGatheringState, iceConnectionState,
      localDescription, remoteDescription, _remoteStreams, _subscriptions,
      pending, stimulus, effects, emitted>>

fields ==
    <<signalingState, iceGatheringState, iceConnectionState,
      localDescription, remoteDescription, _remoteStreams, _subscriptions>>

\* The ids of the peer connections constructed so far.
Pcs == 0 .. (nextPeerConnectionId - 1)

\* The ids an inbound event may carry: every constructed id and one that no
\* instance has.
EventIds == 0 .. nextPeerConnectionId

\* A step that sends, dispatches, calls and throws nothing.
Quiet ==
    [requests |-> <<>>, dispatched |-> <<>>, continuations |-> <<>>,
     fault |-> FALSE, warned |-> FALSE]

\* ---------------------------------------------------------- collaborators
\* new RTCEvent(type), dispatched on instance pc.
RTCEvent(pc, type) == [target |-> pc, type |-> type]

\* new MediaStreamEvent(type, {stream}), dispatched on instance pc.
MediaStreamEvent(pc, type, stream) == [target |-> pc, type |-> type, stream |-> stream]

\* new RTCIceCandidate(info): the candidate the wire record describes.
RTCIceCandidate(info) ==
    [class |-> "RTCIceCandidate", candidate |-> info.candidate,
     sdpMid |-> info.sdpMid, sdpMLineIndex |-> info.sdpMLineIndex]

\* new RTCIceCandidateEvent(type, {candidate}), dispatched on instance pc.
RTCIceCandidateEvent(pc, type, candidate) ==
    [target |-> pc, type |-> type, candidate |-> candidate]

\* new MediaStreamTrack(info)
MediaStreamTrack(info) == [class |-> "MediaStreamTrack", id |-> info.id, kind |-> info.kind]

\* new MediaStream(id) followed by addTrack for every entry of tracks, in order.
MediaStream(id, tracks) ==
    [id |-> id, tracks |-> [i \in 1 .. Len(tracks) |-> MediaStreamTrack(tracks[i])]]

\* new RTCSessionDescription(info)
RTCSessionDescription(info) ==
    [class |-> "RTCSessionDescription", type |-> info.type, sdp |-> info.sdp]

\* sessionDescription.toJSON(): the wire shape {type, sdp}.
toJSON(sessionDescription) ==
    [type |-> sessionDescription.type, sdp |-> sessionDescription.sdp]

\* candidate.toJSON(): the wire shape {candidate, sdpMid, sdpMLineIndex}.
candidateToJSON(candidate) ==
    [candidate |-> candidate.candidate, sdpMid |-> candidate.sdpMid,
     sdpMLineIndex |-> candidate.sdpMLineIndex]

\* ---------------------------------------------------------------- helpers
\* f[0] \o f[1] \o ... \o f[n-1]: what the listeners dispatched, in the order
\* in which the instances registered them.
RECURSIVE Flatten(_, _)
Flatten(f, n) == IF n = 0 THEN <<>> ELSE Flatten(f, n - 1) \o f[n - 1]

\* Array.prototype.find by stream id: the index of the first match, 0 if none.
FindIndex(streams, streamId) ==
    IF \E i \in 1 .. Len(streams) : streams[i].id = streamId
    THEN CHOOSE i \in 1 .. Len(streams) :
           /\ streams[i].id = streamId
           /\ \A j \in 1 .. (i - 1) : streams[j].id # streamId
    ELSE 0

\* Array.prototype.indexOf: the index of the first entry equal to stream, 0 if none.
IndexOf(streams, stream) ==
    IF \E i \in 1 .. Len(streams) : streams[i] = stream
    THEN CHOOSE i \in 1 .. Len(streams) :
           /\ streams[i] = stream
           /\ \A j \in 1 .. (i - 1) : streams[j] # stream
    ELSE 0

\* Array.prototype.splice(index, 1)
Splice(streams, index) ==
    [i \in 1 .. (Len(streams) - 1) |-> IF i < index THEN streams[i] ELSE streams[i + 1]]

\* --------------------------------------------------- the shared emitter
\* DeviceEventEmitter calls a listener while its subscription is not removed.
Subscribed(pc, name) == name \in _subscriptions[pc]

\* A variant without the guard: the listener runs for every id.
AcceptsAny(pc, ev) == TRUE

\* The guard every listener starts with: if (ev.id !== this._peerConnectionId) return;
Accepts(pc, ev) == ev.id = pc

\* Listener `name` of instance pc runs its body for ev.
Handles(pc, name, ev) == Subscribed(pc, name) /\ Accepts(pc, ev)

\* What the engine has emitted for each constructed id, up to and including
\* the first iceConnectionState 'closed' (a record of the inputs, not of the
\* instance's reaction to them).
Emit(field, ev) ==
    [pc \in Pcs |->
        IF ev.id = pc /\ ~emitted[pc].closed
        THEN [emitted[pc] EXCEPT
                ![field] = ev[field],
                !.closed = (field = "iceConnectionState" /\ ev[field] = "closed")]
        ELSE emitted[pc]]

\* ------------------------------------------------------------ construction
\* f with a value for the new instance pc.
Extend(f, pc, v) == [p \in (DOMAIN f) \cup {pc} |-> IF p = pc THEN v ELSE f[p]]

\* _registerEvents: one subscription per native event.
_registerEvents == NativeEvents

\* A variant that removes nothing.
KeepSubscriptions == NativeEvents

\* _unregisterEvents: every subscription removed, the array emptied.
_unregisterEvents == {}

\* A variant that reads the counter and leaves it as it was.
constructorWithoutIncrement(configuration) ==
    LET pc == nextPeerConnectionId IN
    /\ pc < MaxSessions
    /\ nextPeerConnectionId' = pc
    /\ signalingState' = Extend(signalingState, pc, "stable")
    /\ iceGatheringState' = Extend(iceGatheringState, pc, "new")
    /\ iceConnectionState' = Extend(iceConnectionState, pc, "new")
    /\ localDescription' = Extend(localDescription, pc, undefined)
    /\ remoteDescription' = Extend(remoteDescription, pc, undefined)
    /\ _remoteStreams' = Extend(_remoteStreams, pc, <<>>)
    /\ _subscriptions' = Extend(_subscriptions, pc, _registerEvents)
    /\ emitted' = Extend(emitted, pc,
            [signalingState |-> "stable", iceGatheringState |-> "new",
             iceConnectionState |-> "new", closed |-> FALSE])
    /\ stimulus' = [kind |-> "new", id |-> pc]
    /\ effects' = [Quiet EXCEPT !.requests =
            <<[method |-> "peerConnectionInit", configuration |-> configuration, id |-> pc]>>]
    /\ UNCHANGED pending

\* new RTCPeerConnection(configuration)
constructor(configuration) ==
    LET pc == nextPeerConnectionId IN
    /\ pc < MaxSessions
    /\ nextPeerConnectionId' = pc + 1
    /\ signalingState' = Extend(signalingState, pc, "stable")
    /\ iceGatheringState' = Extend(iceGatheringState, pc, "new")
    /\ iceConnectionState' = Extend(iceConnectionState, pc, "new")
    /\ localDescription' = Extend(localDescription, pc, undefined)
    /\ remoteDescription' = Extend(remoteDescription, pc, undefined)
    /\ _remoteStreams' = Extend(_remoteStreams, pc, <<>>)
    /\ _subscriptions' = Extend(_subscriptions, pc, _registerEvents)
    /\ emitted' = Extend(emitted, pc,
            [signalingState |-> "stable", iceGatheringState |-> "new",
             iceConnectionState |-> "new", closed |-> FALSE])
    /\ stimulus' = [kind |-> "new", id |-> pc]
    /\ effects' = [Quiet EXCEPT !.requests =
            <<[method |-> "peerConnectionInit", configuration |-> configuration, id |-> pc]>>]
    /\ UNCHANGED pending

\* ---------------------------------------------------------- the listeners
\* A variant that refuses to leave 'closed', as a legality check would.
SignalingStateUnlessClosed(old, ev) == IF old = "closed" THEN old ELSE ev.signalingState

\* this.signalingState = ev.signalingState;
AssignedSignalingState(old, ev) == ev.signalingState

\* this.iceConnectionState = ev.iceConnectionState;
AssignedIceConnectionState(old, ev) == ev.iceConnectionState

\* this.iceGatheringState = ev.iceGatheringState;
AssignedIceGatheringState(old, ev) == ev.iceGatheringState

\* Each action is DeviceEventEmitter emitting one native event: every instance
\* still subscribed to it runs its listener, which returns at once unless the
\* event carries the instance's own id.

peerConnectionOnRenegotiationNeeded(ev) ==
    LET name == "peerConnectionOnRenegotiationNeeded" IN
    /\ stimulus' = [kind |-> "event", name |-> name, ev |-> ev]
    /\ effects' = [Quiet EXCEPT !.dispatched = Flatten(
            [pc \in Pcs |-> IF Handles(pc, name, ev)
                            THEN <<RTCEvent(pc, "negotiationneeded")>> ELSE <<>>],
            nextPeerConnectionId)]
    /\ UNCHANGED <<nextPeerConnectionId, fields, pending, emitted>>

\* The 'iceconnectionstatechange' event as its subscribers meet it: line 180
\* dispatches after line 179 has assigned and before line 182 unregisters, so
\* a subscriber reading target.iceConnectionState reads the assigned value.
IceConnectionStateChange(pc, ev) ==
    RTCEvent(pc, "iceconnectionstatechange") @@
    [iceConnectionState |-> AssignedIceConnectionState(iceConnectionState[pc], ev)]

peerConnectionIceConnectionChanged(ev) ==
    LET name == "peerConnectionIceConnectionChanged" IN
    /\ iceConnectionState' =
            [pc \in Pcs |-> IF Handles(pc, name, ev)
                            THEN AssignedIceConnectionState(iceConnectionState[pc], ev)
                            ELSE iceConnectionState[pc]]
    /\ _subscriptions' =
            [pc \in Pcs |-> IF Handles(pc, name, ev) /\ ev.iceConnectionState = "closed"
                            THEN _unregisterEvents ELSE _subscriptions[pc]]
    /\ stimulus' = [kind |-> "event", name |-> name, ev |-> ev]
    /\ effects' = [Quiet EXCEPT !.dispatched = Flatten(
            [pc \in Pcs |-> IF Handles(pc, name, ev)
                            THEN <<IceConnectionStateChange(pc, ev)>> ELSE <<>>],
            nextPeerConnectionId)]
    /\ emitted' = Emit("iceConnectionState", ev)
    /\ UNCHANGED <<nextPeerConnectionId, signalingState, iceGatheringState,
                   localDescription, remoteDescription, _remoteStreams, pending>>

peerConnectionSignalingStateChanged(ev) ==
    LET name == "peerConnectionSignalingStateChanged" IN
    /\ signalingState' =
            [pc \in Pcs |-> IF Handles(pc, name, ev)
                            THEN AssignedSignalingState(signalingState[pc], ev)
                            ELSE signalingState[pc]]
    /\ stimulus' = [kind |-> "event", name |-> name, ev |-> ev]
    /\ effects' = [Quiet EXCEPT !.dispatched = Flatten(
            [pc \in Pcs |-> IF Handles(pc, name, ev)
                            THEN <<RTCEvent(pc, "signalingstatechange")>> ELSE <<>>],
            nextPeerConnectionId)]
    /\ emitted' = Emit("signalingState", ev)
    /\ UNCHANGED <<nextPeerConnectionId, iceGatheringState, iceConnectionState,
                   localDescription, remoteDescription, _remoteStreams,
                   _subscriptions, pending>>

\* The streams the first n instances hold, all together.
RECURSIVE Held(_)
Held(n) == IF n = 0 THEN 0 ELSE Held(n - 1) + Len(_remoteStreams[n - 1])

\* The stream the listener constructs and pushes.
AddedStream(ev) == MediaStream(ev.streamId, ev.tracks)

\* _remoteStreams of one instance after its listener ran for ev.
PushStream(streams, ev) == Append(streams, AddedStream(ev))

peerConnectionAddedStream(ev) ==
    LET name == "peerConnectionAddedStream" IN
    /\ Held(nextPeerConnectionId) < MaxStreams
    /\ _remoteStreams' =
            [pc \in Pcs |-> IF Handles(pc, name, ev)
                            THEN PushStream(_remoteStreams[pc], ev) ELSE _remoteStreams[pc]]
    /\ stimulus' = [kind |-> "event", name |-> name, ev |-> ev]
    /\ effects' = [Quiet EXCEPT !.dispatched = Flatten(
            [pc \in Pcs |-> IF Handles(pc, name, ev)
                            THEN <<MediaStreamEvent(pc, "addstream", AddedStream(ev))>>
                            ELSE <<>>],
            nextPeerConnectionId)]
    /\ UNCHANGED <<nextPeerConnectionId, signalingState, iceGatheringState,
                   iceConnectionState, localDescription, remoteDescription,
                   _subscriptions, pending, emitted>>

\* A variant that falls back to the first stream when none matches.
FoundOrFirst(streams, streamId) ==
    IF FindIndex(streams, streamId) # 0 THEN streams[FindIndex(streams, streamId)]
    ELSE IF Len(streams) > 0 THEN streams[1] ELSE undefined

\* const stream = this._remoteStreams.find(s => s.id === ev.streamId);
FoundStream(streams, streamId) ==
    IF FindIndex(streams, streamId) = 0 THEN undefined
    ELSE streams[FindIndex(streams, streamId)]

\* _remoteStreams of one instance after its listener ran for a removal.
RemoveStream(streams, streamId) ==
    LET stream == FoundStream(streams, streamId)
        index == IndexOf(streams, stream)
    IN  IF stream # undefined /\ index > 0 THEN Splice(streams, index) ELSE streams

peerConnectionRemovedStream(ev) ==
    LET name == "peerConnectionRemovedStream" IN
    /\ _remoteStreams' =
            [pc \in Pcs |-> IF Handles(pc, name, ev)
                            THEN RemoveStream(_remoteStreams[pc], ev.streamId)
                            ELSE _remoteStreams[pc]]
    /\ stimulus' = [kind |-> "event", name |-> name, ev |-> ev]
    /\ effects' = [Quiet EXCEPT !.dispatched = Flatten(
            [pc \in Pcs |-> IF Handles(pc, name, ev)
                            THEN <<MediaStreamEvent(pc, "removestream",
                                        FoundStream(_remoteStreams[pc], ev.streamId))>>
                            ELSE <<>>],
            nextPeerConnectionId)]
    /\ UNCHANGED <<nextPeerConnectionId, signalingState, iceGatheringState,
                   iceConnectionState, localDescription, remoteDescription,
                   _subscriptions, pending, emitted>>

\* A variant that builds the candidate event and does not dispatch it.
peerConnectionGotICECandidateUndispatched(ev) ==
    /\ stimulus' = [kind |-> "event", name |-> "peerConnectionGotICECandidate", ev |-> ev]
    /\ effects' = Quiet
    /\ UNCHANGED <<nextPeerConnectionId, fields, pending, emitted>>

peerConnectionGotICECandidate(ev) ==
    LET name == "peerConnectionGotICECandidate" IN
    /\ stimulus' = [kind |-> "event", name |-> name, ev |-> ev]
    /\ effects' = [Quiet EXCEPT !.dispatched = Flatten(
            [pc \in Pcs |-> IF Handles(pc, name, ev)
                            THEN <<RTCIceCandidateEvent(pc, "icecandidate",
                                        RTCIceCandidate(ev.candidate))>>
                            ELSE <<>>],
            nextPeerConnectionId)]
    /\ UNCHANGED <<nextPeerConnectionId, fields, pending, emitted>>

peerConnectionIceGatheringChanged(ev) ==
    LET name == "peerConnectionIceGatheringChanged" IN
    /\ iceGatheringState' =
            [pc \in Pcs |-> IF Handles(pc, name, ev)
                            THEN AssignedIceGatheringState(iceGatheringState[pc], ev)
                            ELSE iceGatheringState[pc]]
    /\ stimulus' = [kind |-> "event", name |-> name, ev |-> ev]
    /\ effects' = [Quiet EXCEPT !.dispatched = Flatten(
            [pc \in Pcs |-> IF Handles(pc, name, ev)
                            THEN <<RTCEvent(pc, "icegatheringstatechange")>> ELSE <<>>],
            nextPeerConnectionId)]
    /\ emitted' = Emit("iceGatheringState", ev)
    /\ UNCHANGED <<nextPeerConnectionId, signalingState, iceConnectionState,
                   localDescription, remoteDescription, _remoteStreams,
                   _subscriptions, pending>>

\* ------------------------------------------------------------ the methods
\* A request handed to WebRTCModule together with a callback: what the
\* callback closes over.
Ticket(method, pc, sessionDescription, success, failure) ==
    [method |-> method, id |-> pc, sessionDescription |-> sessionDescription,
     success |-> success, failure |-> failure]

\* A variant without the else: the failure continuation is called as well.
InvokeBoth(t, which, args) ==
    IF t[which]
    THEN [Quiet EXCEPT !.continuations =
            <<[ticket |-> t, which |-> which, args |-> args],
              [ticket |-> t, which |-> "failure", args |-> args]>>]
    ELSE [Quiet EXCEPT !.fault = TRUE]

\* continuation(args) where the continuation may have been omitted: calling
\* undefined throws a TypeError out of the callback.
Invoke(t, which, args) ==
    IF t[which]
    THEN [Quiet EXCEPT !.continuations = <<[ticket |-> t, which |-> which, args |-> args]>>]
    ELSE [Quiet EXCEPT !.fault = TRUE]

\* A variant without the && guard.
InvokeUnguarded(t, which, args) ==
    IF t[which]
    THEN [Quiet EXCEPT !.continuations = <<[ticket |-> t, which |-> which, args |-> args]>>]
    ELSE [Quiet EXCEPT !.fault = TRUE]

\* continuation && continuation(args)
InvokeIfGiven(t, which, args) ==
    IF t[which]
    THEN [Quiet EXCEPT !.continuations = <<[ticket |-> t, which |-> which, args |-> args]>>]
    ELSE Quiet

\* pending without its i-th entry: the engine invokes a callback once.
Settle(i) == [j \in 1 .. (Len(pending) - 1) |-> IF j < i THEN pending[j] ELSE pending[j + 1]]

addStream(pc, stream) ==
    /\ stimulus' = [kind |-> "call", method |-> "addStream", id |-> pc, stream |-> stream]
    /\ effects' = [Quiet EXCEPT !.requests =
            <<[method |-> "peerConnectionAddStream", streamId |-> stream.id, id |-> pc]>>]
    /\ UNCHANGED <<nextPeerConnectionId, fields, pending, emitted>>

\* A variant that also drops the streams of that id from _remoteStreams.
removeStreamAndForget(pc, stream) ==
    /\ _remoteStreams' = [_remoteStreams EXCEPT
            ![pc] = SelectSeq(@, LAMBDA held : held.id # stream.id)]
    /\ stimulus' = [kind |-> "call", method |-> "removeStream", id |-> pc, stream |-> stream]
    /\ effects' = [Quiet EXCEPT !.requests =
            <<[method |-> "peerConnectionRemoveStream", streamId |-> stream.id, id |-> pc]>>]
    /\ UNCHANGED <<nextPeerConnectionId, signalingState, iceGatheringState,
                   iceConnectionState, localDescription, remoteDescription,
                   _subscriptions, pending, emitted>>

removeStream(pc, stream) ==
    /\ stimulus' = [kind |-> "call", method |-> "removeStream", id |-> pc, stream |-> stream]
    /\ effects' = [Quiet EXCEPT !.requests =
            <<[method |-> "peerConnectionRemoveStream", streamId |-> stream.id, id |-> pc]>>]
    /\ UNCHANGED <<nextPeerConnectionId, fields, pending, emitted>>

\* A variant that does nothing once signalingState is 'closed'.
closeUnlessClosed(pc) ==
    /\ stimulus' = [kind |-> "call", method |-> "close", id |-> pc]
    /\ effects' = IF signalingState[pc] = "closed" THEN Quiet
                  ELSE [Quiet EXCEPT !.requests =
                            <<[method |-> "peerConnectionClose", id |-> pc]>>]
    /\ UNCHANGED <<nextPeerConnectionId, fields, pending, emitted>>

\* A variant that releases the subscriptions at once.
closeAndUnregister(pc) ==
    /\ _subscriptions' = [_subscriptions EXCEPT ![pc] = _unregisterEvents]
    /\ stimulus' = [kind |-> "call", method |-> "close", id |-> pc]
    /\ effects' = [Quiet EXCEPT !.requests = <<[method |-> "peerConnectionClose", id |-> pc]>>]
    /\ UNCHANGED <<nextPeerConnectionId, signalingState, iceGatheringState,
                   iceConnectionState, localDescription, remoteDescription,
                   _remoteStreams, pending, emitted>>

\* A variant that flips iceConnectionState itself.
closeAndFlip(pc) ==
    /\ iceConnectionState' = [iceConnectionState EXCEPT ![pc] = "closed"]
    /\ stimulus' = [kind |-> "call", method |-> "close", id |-> pc]
    /\ effects' = [Quiet EXCEPT !.requests = <<[method |-> "peerConnectionClose", id |-> pc]>>]
    /\ UNCHANGED <<nextPeerConnectionId, signalingState, iceGatheringState,
                   localDescription, remoteDescription, _remoteStreams,
                   _subscriptions, pending, emitted>>

close(pc) ==
    /\ stimulus' = [kind |-> "call", method |-> "close", id |-> pc]
    /\ effects' = [Quiet EXCEPT !.requests = <<[method |-> "peerConnectionClose", id |-> pc]>>]
    /\ UNCHANGED <<nextPeerConnectionId, fields, pending, emitted>>

createOffer(pc, success, failure) ==
    LET t == Ticket("createOffer", pc, undefined, success, failure) IN
    /\ Len(pending) < MaxPending
    /\ pending' = Append(pending, t)
    /\ stimulus' = [kind |-> "call", method |-> "createOffer", id |-> pc, ticket |-> t]
    /\ effects' = [Quiet EXCEPT !.requests =
            <<[method |-> "peerConnectionCreateOffer", id |-> pc]>>]
    /\ UNCHANGED <<nextPeerConnectionId, fields, emitted>>

\* (successful, data) => { ... } of createOffer
createOfferCallback(i, successful, data) ==
    LET t == pending[i] IN
    /\ t.method = "createOffer"
    /\ pending' = Settle(i)
    /\ stimulus' = [kind |-> "callback", ticket |-> t, successful |-> successful, data |-> data]
    /\ effects' = IF successful
                  THEN Invoke(t, "success", <<RTCSessionDescription(data)>>)
                  ELSE Invoke(t, "failure", <<data>>)
    /\ UNCHANGED <<nextPeerConnectionId, fields, emitted>>

createAnswer(pc, success, failure) ==
    LET t == Ticket("createAnswer", pc, undefined, success, failure) IN
    /\ Len(pending) < MaxPending
    /\ pending' = Append(pending, t)
    /\ stimulus' = [kind |-> "call", method |-> "createAnswer", id |-> pc, ticket |-> t]
    /\ effects' = [Quiet EXCEPT !.requests =
            <<[method |-> "peerConnectionCreateAnswer", id |-> pc]>>]
    /\ UNCHANGED <<nextPeerConnectionId, fields, emitted>>

\* (successful, data) => { ... } of createAnswer
createAnswerCallback(i, successful, data) ==
    LET t == pending[i] IN
    /\ t.method = "createAnswer"
    /\ pending' = Settle(i)
    /\ stimulus' = [kind |-> "callback", ticket |-> t, successful |-> successful, data |-> data]
    /\ effects' = IF successful
                  THEN Invoke(t, "success", <<RTCSessionDescription(data)>>)
                  ELSE Invoke(t, "failure", <<data>>)
    /\ UNCHANGED <<nextPeerConnectionId, fields, emitted>>

\* A variant that keeps a description once one is stored.
RecordedFirstOnly(old, sessionDescription, successful, data) ==
    IF successful /\ old = undefined THEN sessionDescription ELSE old

\* A variant that stores what the engine passed back.
RecordedEcho(old, sessionDescription, successful, data) ==
    IF successful THEN RTCSessionDescription(data) ELSE old

\* The description field after the callback of a set-description request ran:
\* if (successful) { this.localDescription = sessionDescription; ... }
Recorded(old, sessionDescription, successful, data) ==
    IF successful THEN sessionDescription ELSE old

\* A variant that stores the description when the request is made.
setLocalDescriptionEager(pc, sessionDescription, success, failure) ==
    LET t == Ticket("setLocalDescription", pc, sessionDescription, success, failure) IN
    /\ Len(pending) < MaxPending
    /\ pending' = Append(pending, t)
    /\ localDescription' = [localDescription EXCEPT ![pc] = sessionDescription]
    /\ stimulus' = [kind |-> "call", method |-> "setLocalDescription", id |-> pc, ticket |-> t]
    /\ effects' = [Quiet EXCEPT !.requests =
            <<[method |-> "peerConnectionSetLocalDescription",
               sessionDescription |-> toJSON(sessionDescription), id |-> pc]>>]
    /\ UNCHANGED <<nextPeerConnectionId, signalingState, iceGatheringState,
                   iceConnectionState, remoteDescription, _remoteStreams,
                   _subscriptions, emitted>>

setLocalDescription(pc, sessionDescription, success, failure) ==
    LET t == Ticket("setLocalDescription", pc, sessionDescription, success, failure) IN
    /\ Len(pending) < MaxPending
    /\ pending' = Append(pending, t)
    /\ stimulus' = [kind |-> "call", method |-> "setLocalDescription", id |-> pc, ticket |-> t]
    /\ effects' = [Quiet EXCEPT !.requests =
            <<[method |-> "peerConnectionSetLocalDescription",
               sessionDescription |-> toJSON(sessionDescription), id |-> pc]>>]
    /\ UNCHANGED <<nextPeerConnectionId, fields, emitted>>

\* A variant that drops the outcome once the instance has unregistered.
setLocalDescriptionCallbackWhileActive(i, successful, data) ==
    LET t == pending[i]
        live == _subscriptions[t.id] # {}
    IN
    /\ t.method = "setLocalDescription"
    /\ pending' = Settle(i)
    /\ localDescription' = [localDescription EXCEPT
            ![t.id] = IF live THEN Recorded(@, t.sessionDescription, successful, data) ELSE @]
    /\ stimulus' = [kind |-> "callback", ticket |-> t, successful |-> successful, data |-> data]
    /\ effects' = IF ~live THEN Quiet
                  ELSE IF successful THEN Invoke(t, "success", <<>>)
                  ELSE Invoke(t, "failure", <<data>>)
    /\ UNCHANGED <<nextPeerConnectionId, signalingState, iceGatheringState,
                   iceConnectionState, remoteDescription, _remoteStreams,
                   _subscriptions, emitted>>

\* (successful, data) => { ... } of setLocalDescription
setLocalDescriptionCallback(i, successful, data) ==
    LET t == pending[i] IN
    /\ t.method = "setLocalDescription"
    /\ pending' = Settle(i)
    /\ localDescription' = [localDescription EXCEPT
            ![t.id] = Recorded(@, t.sessionDescription, successful, data)]
    /\ stimulus' = [kind |-> "callback", ticket |-> t, successful |-> successful, data |-> data]
    /\ effects' = IF successful
                  THEN Invoke(t, "success", <<>>)
                  ELSE Invoke(t, "failure", <<data>>)
    /\ UNCHANGED <<nextPeerConnectionId, signalingState, iceGatheringState,
                   iceConnectionState, remoteDescription, _remoteStreams,
                   _subscriptions, emitted>>

setRemoteDescription(pc, sessionDescription, success, failure) ==
    LET t == Ticket("setRemoteDescription", pc, sessionDescription, success, failure) IN
    /\ Len(pending) < MaxPending
    /\ pending' = Append(pending, t)
    /\ stimulus' = [kind |-> "call", method |-> "setRemoteDescription", id |-> pc, ticket |-> t]
    /\ effects' = [Quiet EXCEPT !.requests =
            <<[method |-> "peerConnectionSetRemoteDescription",
               sessionDescription |-> toJSON(sessionDescription), id |-> pc]>>]
    /\ UNCHANGED <<nextPeerConnectionId, fields, emitted>>

\* (successful, data) => { ... } of setRemoteDescription
setRemoteDescriptionCallback(i, successful, data) ==
    LET t == pending[i] IN
    /\ t.method = "setRemoteDescription"
    /\ pending' = Settle(i)
    /\ remoteDescription' = [remoteDescription EXCEPT
            ![t.id] = Recorded(@, t.sessionDescription, successful, data)]
    /\ stimulus' = [kind |-> "callback", ticket |-> t, successful |-> successful, data |-> data]
    /\ effects' = IF successful
                  THEN Invoke(t, "success", <<>>)
                  ELSE Invoke(t, "failure", <<data>>)
    /\ UNCHANGED <<nextPeerConnectionId, signalingState, iceGatheringState,
                   iceConnectionState, localDescription, _remoteStreams,
                   _subscriptions, emitted>>

addIceCandidate(pc, candidate, success, failure) ==
    LET t == Ticket("addIceCandidate", pc, undefined, success, failure) IN
    /\ Len(pending) < MaxPending
    /\ pending' = Append(pending, t)
    /\ stimulus' = [kind |-> "call", method |-> "addIceCandidate", id |-> pc, ticket |-> t]
    /\ effects' = [Quiet EXCEPT !.requests =
            <<[method |-> "peerConnectionAddICECandidate",
               candidate |-> candidateToJSON(candidate), id |-> pc]>>]
    /\ UNCHANGED <<nextPeerConnectionId, fields, emitted>>

\* (successful) => { ... } of addIceCandidate: the callback takes no data.
addIceCandidateCallback(i, successful, data) ==
    LET t == pending[i] IN
    /\ t.method = "addIceCandidate"
    /\ pending' = Settle(i)
    /\ stimulus' = [kind |-> "callback", ticket |-> t, successful |-> successful, data |-> data]
    /\ effects' = IF successful
                  THEN InvokeIfGiven(t, "success", <<>>)
                  ELSE InvokeIfGiven(t, "failure", <<>>)
    /\ UNCHANGED <<nextPeerConnectionId, fields, emitted>>

\* ----------------------------------------------------------------- inputs
Configurations == {[iceServers |-> <<>>]}

StreamIds == {"s1", "s2"}

TrackLists == {<<[id |-> "t1", kind |-> "audio"]>>}

\* The streams a caller hands to addStream and removeStream.
LocalStreams == {MediaStream(id, <<>>) : id \in StreamIds}

CandidateInfos == {[candidate |-> "candidate:1", sdpMid |-> "audio", sdpMLineIndex |-> 0]}

\* The description a caller hands to setLocalDescription and setRemoteDescription.
Descriptions == {RTCSessionDescription([type |-> "offer", sdp |-> "v=0 o"])}

\* What the engine passes to a callback as data: a description on success,
\* a diagnostic on failure.
EngineData(successful) ==
    IF successful
    THEN {[type |-> "offer", sdp |-> "v=0 e"]}
    ELSE {[message |-> "e1"], [message |-> "e2"]}

\* Emissions of the seven native events, every value of the three
\* enumerations, for every constructed id and for an id no instance has.
InboundAll ==
    \/ \E ev \in [id : EventIds] : peerConnectionOnRenegotiationNeeded(ev)
    \/ \E ev \in [id : EventIds, iceConnectionState : RTCIceConnectionState] :
            peerConnectionIceConnectionChanged(ev)
    \/ \E ev \in [id : EventIds, signalingState : RTCSignalingState] :
            peerConnectionSignalingStateChanged(ev)
    \/ \E ev \in [id : EventIds, streamId : StreamIds, tracks : TrackLists] :
            peerConnectionAddedStream(ev)
    \/ \E ev \in [id : EventIds, streamId : StreamIds] : peerConnectionRemovedStream(ev)
    \/ \E ev \in [id : EventIds, candidate : CandidateInfos] :
            peerConnectionGotICECandidate(ev)
    \/ \E ev \in [id : EventIds, iceGatheringState : RTCIceGatheringState] :
            peerConnectionIceGatheringChanged(ev)

\* Emissions of the three state-change events for the constructed ids.
InboundStates ==
    \/ \E ev \in [id : Pcs, iceConnectionState : {"connected", "closed"}] :
            peerConnectionIceConnectionChanged(ev)
    \/ \E ev \in [id : Pcs, signalingState : {"have-local-offer"}] :
            peerConnectionSignalingStateChanged(ev)
    \/ \E ev \in [id : Pcs, iceGatheringState : {"complete"}] :
            peerConnectionIceGatheringChanged(ev)

\* Emissions of the seven native events for the constructed ids, one payload each.
InboundEach ==
    \/ \E ev \in [id : Pcs] : peerConnectionOnRenegotiationNeeded(ev)
    \/ \E ev \in [id : Pcs, iceConnectionState : {"closed"}] :
            peerConnectionIceConnectionChanged(ev)
    \/ \E ev \in [id : Pcs, signalingState : {"have-local-offer"}] :
            peerConnectionSignalingStateChanged(ev)
    \/ \E ev \in [id : Pcs, streamId : {"s1"}, tracks : TrackLists] :
            peerConnectionAddedStream(ev)
    \/ \E ev \in [id : Pcs, streamId : {"s1"}] : peerConnectionRemovedStream(ev)
    \/ \E ev \in [id : Pcs, candidate : CandidateInfos] : peerConnectionGotICECandidate(ev)
    \/ \E ev \in [id : Pcs, iceGatheringState : {"complete"}] :
            peerConnectionIceGatheringChanged(ev)

\* Calls of the methods that hand the engine no callback.
Outbound ==
    \/ \E pc \in Pcs, stream \in LocalStreams : addStream(pc, stream)
    \/ \E pc \in Pcs, stream \in LocalStreams : removeStream(pc, stream)
    \/ \E pc \in Pcs : close(pc)

\* Calls of the methods that hand the engine a callback.
Commands ==
    \/ \E pc \in Pcs, success \in BOOLEAN, failure \in BOOLEAN :
            createOffer(pc, success, failure)
    \/ \E pc \in Pcs, success \in BOOLEAN, failure \in BOOLEAN :
            createAnswer(pc, success, failure)
    \/ \E pc \in Pcs, d \in Descriptions, success \in BOOLEAN, failure \in BOOLEAN :
            setLocalDescription(pc, d, success, failure)
    \/ \E pc \in Pcs, d \in Descriptions, success \in BOOLEAN, failure \in BOOLEAN :
            setRemoteDescription(pc, d, success, failure)
    \/ \E pc \in Pcs, c \in CandidateInfos, success \in BOOLEAN, failure \in BOOLEAN :
            addIceCandidate(pc, RTCIceCandidate(c), success, failure)

\* The engine invoking the callback of a request it was handed.
Callbacks ==
    \/ \E i \in 1 .. Len(pending), successful \in BOOLEAN :
         \E data \in EngineData(successful) : createOfferCallback(i, successful, data)
    \/ \E i \in 1 .. Len(pending), successful \in BOOLEAN :
         \E data \in EngineData(successful) : createAnswerCallback(i, successful, data)
    \/ \E i \in 1 .. Len(pending), successful \in BOOLEAN :
         \E data \in EngineData(successful) : setLocalDescriptionCallback(i, successful, data)
    \/ \E i \in 1 .. Len(pending), successful \in BOOLEAN :
         \E data \in EngineData(successful) : setRemoteDescriptionCallback(i, successful, data)
    \/ \E i \in 1 .. Len(pending), successful \in BOOLEAN :
         \E data \in EngineData(successful) : addIceCandidateCallback(i, successful, data)

\* --------------------------------------------------------- specifications
\* The module is loaded and nothing is constructed.
Loaded ==
    /\ nextPeerConnectionId = 0
    /\ signalingState = <<>>
    /\ iceGatheringState = <<>>
    /\ iceConnectionState = <<>>
    /\ localDescription = <<>>
    /\ remoteDescription = <<>>
    /\ _remoteStreams = <<>>
    /\ _subscriptions = <<>>
    /\ emitted = <<>>
    /\ pending = <<>>
    /\ stimulus = [kind |-> "load"]
    /\ effects = Quiet

\* One peer connection, id 0, has been constructed.
Init ==
    /\ nextPeerConnectionId = 1
    /\ signalingState = [pc \in {0} |-> "stable"]
    /\ iceGatheringState = [pc \in {0} |-> "new"]
    /\ iceConnectionState = [pc \in {0} |-> "new"]
    /\ localDescription = [pc \in {0} |-> undefined]
    /\ remoteDescription = [pc \in {0} |-> undefined]
    /\ _remoteStreams = [pc \in {0} |-> <<>>]
    /\ _subscriptions = [pc \in {0} |-> _registerEvents]
    /\ emitted = [pc \in {0} |->
            [signalingState |-> "stable", iceGatheringState |-> "new",
             iceConnectionState |-> "new", closed |-> FALSE]]
    /\ pending = <<>>
    /\ stimulus = [kind |-> "new", id |-> 0]
    /\ effects = [Quiet EXCEPT !.requests =
            <<[method |-> "peerConnectionInit",
               configuration |-> [iceServers |-> <<>>], id |-> 0]>>]

\* One peer connection, its commands and their callbacks, between the
\* state-change events.
Next ==
    \/ InboundStates
    \/ \E pc \in Pcs : close(pc)
    \/ Commands
    \/ Callbacks

Spec == Init /\ [][Next]_vars

\* One peer connection and the inbound events in full.
NextEvents ==
    \/ InboundAll
    \/ Outbound

SpecEvents == Init /\ [][NextEvents]_vars

\* Several peer connections on the one emitter.
NextMulti ==
    \/ \E configuration \in Configurations : constructor(configuration)
    \/ InboundEach

SpecMulti == Loaded /\ [][NextMulti]_vars

\* ------------------------------------------------------------- properties
\* The instance still holds its seven subscriptions.
Active(pc) == _subscriptions[pc] = NativeEvents

\* The state fields of one instance.
StateOf(pc) ==
    <<signalingState[pc], iceGatheringState[pc], iceConnectionState[pc],
      localDescription[pc], remoteDescription[pc], _remoteStreams[pc]>>

\* The last step dispatched an event on instance pc.
NotifiedTo(pc) == \E i \in 1 .. Len(effects.dispatched) : effects.dispatched[i].target = pc

\* The last step was the emission of native event `name`.
IsEvent(name) == stimulus.kind = "event" /\ stimulus.name = name

\* Some stream of the array has the id.
Holds(streams, streamId) == \E i \in 1 .. Len(streams) : streams[i].id = streamId

\* C1: once an iceConnectionState 'closed' event with the instance's id has
\* been emitted to it, no later native event carrying that id changes a state
\* field of the instance or dispatches anything on it, and the instance never
\* gets its subscriptions back.
C1_TornDownIsFinal ==
    [][\A pc \in Pcs : emitted[pc].closed =>
            /\ _subscriptions'[pc] = {}
            /\ (stimulus'.kind = "event" /\ stimulus'.ev.id = pc) =>
                    /\ StateOf(pc)' = StateOf(pc)
                    /\ ~NotifiedTo(pc)']_vars

\* C1 witness: after the teardown a signalingState event with the instance's
\* id was emitted and the field does not show its value.
C1_Witness ==
    /\ emitted[0].closed
    /\ IsEvent("peerConnectionSignalingStateChanged")
    /\ stimulus.ev.id = 0
    /\ stimulus.ev.signalingState # signalingState[0]

\* C2 (as claimed): _remoteStreams never holds two streams of one id; a
\* stream-added event for an id already held leaves the array as it was and
\* dispatches no 'addstream'.
C2_AddedStreamIsIdempotent ==
    [][\A pc \in Pcs :
            /\ \A i, j \in 1 .. Len(_remoteStreams'[pc]) :
                    _remoteStreams'[pc][i].id = _remoteStreams'[pc][j].id => i = j
            /\ ( /\ IsEvent("peerConnectionAddedStream")'
                 /\ stimulus'.ev.id = pc
                 /\ Holds(_remoteStreams[pc], stimulus'.ev.streamId) ) =>
                    /\ _remoteStreams'[pc] = _remoteStreams[pc]
                    /\ ~NotifiedTo(pc)']_vars

\* C3: while an instance is active, signalingState, iceConnectionState and
\* iceGatheringState are the values of the last event of their kind emitted
\* with its id, or 'stable', 'new', 'new' if there was none.
C3_FieldsFollowLastEvent ==
    \A pc \in Pcs : Active(pc) =>
        /\ signalingState[pc] = emitted[pc].signalingState
        /\ iceConnectionState[pc] = emitted[pc].iceConnectionState
        /\ iceGatheringState[pc] = emitted[pc].iceGatheringState

\* C3 witness: an active instance whose last step delivered a signalingState
\* that no negotiation reaches from the earlier ones, while the other two
\* fields show the values of earlier events.
C3_Witness ==
    /\ Active(0)
    /\ IsEvent("peerConnectionSignalingStateChanged")
    /\ stimulus.ev = [id |-> 0, signalingState |-> "have-remote-pranswer"]
    /\ signalingState[0] = "have-remote-pranswer"
    /\ iceConnectionState[0] = "failed"
    /\ iceGatheringState[0] = "complete"

\* The last step was the engine invoking the callback of a `method` request.
IsCallback(method) == stimulus.kind = "callback" /\ stimulus.ticket.method = method

\* The one continuation call of a callback: which one, with which arguments.
Called(t, which, args) == <<[ticket |-> t, which |-> which, args |-> args]>>

\* C4: when the callback of setLocalDescription(d) (setRemoteDescription(d))
\* reports success, localDescription (remoteDescription) is the caller's d
\* when the success continuation runs, whatever the engine passed back; when
\* it reports failure, both descriptions stay as they were and the failure
\* continuation runs instead.
C4_DescriptionRecordedOnSuccess ==
    [][(stimulus'.kind = "callback" /\
        stimulus'.ticket.method \in {"setLocalDescription", "setRemoteDescription"}) =>
            LET t == stimulus'.ticket
                other(f, g) == IF t.method = "setLocalDescription" THEN g ELSE f
                own(f, g) == IF t.method = "setLocalDescription" THEN f ELSE g
            IN  IF stimulus'.successful
                THEN /\ own(localDescription', remoteDescription')[t.id] = t.sessionDescription
                     /\ other(localDescription', remoteDescription')
                            = other(localDescription, remoteDescription)
                     /\ t.success => effects'.continuations = Called(t, "success", <<>>)
                ELSE /\ localDescription' = localDescription
                     /\ remoteDescription' = remoteDescription
                     /\ t.failure =>
                            effects'.continuations = Called(t, "failure", <<stimulus'.data>>)]_vars

\* C4 witness: the success continuation of setLocalDescription(d) has just
\* run, localDescription is d, and the engine had passed back something else.
C4_Witness ==
    /\ IsCallback("setLocalDescription")
    /\ stimulus.successful
    /\ effects.continuations = Called(stimulus.ticket, "success", <<>>)
    /\ localDescription[0] = stimulus.ticket.sessionDescription
    /\ localDescription[0] # RTCSessionDescription(stimulus.data)

\* The methods that hand the engine a callback, with the request each sends.
RequestOf ==
    [createOffer |-> "peerConnectionCreateOffer",
     createAnswer |-> "peerConnectionCreateAnswer",
     setLocalDescription |-> "peerConnectionSetLocalDescription",
     setRemoteDescription |-> "peerConnectionSetRemoteDescription",
     addIceCandidate |-> "peerConnectionAddICECandidate"]

\* C5: a call of createOffer, createAnswer, setLocalDescription,
\* setRemoteDescription or addIceCandidate sends exactly one request and runs
\* no continuation; a callback of a request made with both continuations runs
\* exactly one of them, success or failure as the engine reports; and a
\* continuation runs only in the callback of its own outstanding request.
C5_OneRequestOneContinuation ==
    [][/\ (stimulus'.kind = "call" /\ stimulus'.method \in DOMAIN RequestOf) =>
            /\ Len(effects'.requests) = 1
            /\ effects'.requests[1].method = RequestOf[stimulus'.method]
            /\ effects'.requests[1].id = stimulus'.id
            /\ effects'.continuations = <<>>
            /\ pending' = Append(pending, stimulus'.ticket)
       /\ (stimulus'.kind = "callback" /\ stimulus'.ticket.success
                /\ stimulus'.ticket.failure) =>
            /\ Len(effects'.continuations) = 1
            /\ effects'.continuations[1].which =
                    (IF stimulus'.successful THEN "success" ELSE "failure")
            /\ effects'.requests = <<>>
       /\ effects'.continuations # <<>> =>
            /\ stimulus'.kind = "callback"
            /\ \E i \in 1 .. Len(pending) : pending[i] = stimulus'.ticket
            /\ Len(pending') = Len(pending) - 1
            /\ \A i \in 1 .. Len(effects'.continuations) :
                    effects'.continuations[i].ticket = stimulus'.ticket]_vars

\* C5 witness: the callback of a createOffer made with both continuations
\* reported failure and exactly the failure continuation ran.
C5_Witness ==
    /\ IsCallback("createOffer")
    /\ stimulus.ticket.success /\ stimulus.ticket.failure
    /\ ~stimulus.successful
    /\ effects.continuations = Called(stimulus.ticket, "failure", <<stimulus.data>>)

\* C6 (as claimed): a callback that reports failure throws nothing, whichever
\* continuations the caller gave, and what it calls is the failure
\* continuation with the engine's data.
C6_FailureNeverThrows ==
    (stimulus.kind = "callback" /\ ~stimulus.successful) =>
        /\ ~effects.fault
        /\ stimulus.ticket.failure =>
                effects.continuations = Called(stimulus.ticket, "failure", <<stimulus.data>>)
        /\ ~stimulus.ticket.failure => effects.continuations = <<>>

\* C7: a stream-removed event for an id that the active instance does not
\* hold leaves _remoteStreams as it was and dispatches exactly one
\* 'removestream', whose stream is undefined; nothing is thrown.
C7_UnknownStreamRemoval ==
    [][\A pc \in Pcs :
            ( /\ IsEvent("peerConnectionRemovedStream")'
              /\ stimulus'.ev.id = pc
              /\ Active(pc)
              /\ ~Holds(_remoteStreams[pc], stimulus'.ev.streamId) ) =>
                /\ _remoteStreams'[pc] = _remoteStreams[pc]
                /\ effects'.dispatched = <<MediaStreamEvent(pc, "removestream", undefined)>>
                /\ ~effects'.fault]_vars

\* C7 witness: a 'removestream' without a stream has just been dispatched
\* while the instance holds a stream of another id.
C7_Witness ==
    /\ IsEvent("peerConnectionRemovedStream")
    /\ stimulus.ev = [id |-> 0, streamId |-> "s2"]
    /\ effects.dispatched = <<MediaStreamEvent(0, "removestream", undefined)>>
    /\ Len(_remoteStreams[0]) = 1
    /\ _remoteStreams[0][1].id = "s1"

\* streams without the entries of the id, the others in their order.
RECURSIVE Without(_, _)
Without(streams, streamId) ==
    IF streams = <<>> THEN <<>>
    ELSE IF Head(streams).id = streamId THEN Without(Tail(streams), streamId)
    ELSE <<Head(streams)>> \o Without(Tail(streams), streamId)

\* C8 (as claimed): after a stream-removed event for an id the active
\* instance holds, no stream of that id is left, the streams of other ids are
\* all there in their order, and the 'removestream' carries the removed stream.
C8_RemovalLeavesNoneOfTheId ==
    [][\A pc \in Pcs :
            ( /\ IsEvent("peerConnectionRemovedStream")'
              /\ stimulus'.ev.id = pc
              /\ Active(pc)
              /\ Holds(_remoteStreams[pc], stimulus'.ev.streamId) ) =>
                /\ ~Holds(_remoteStreams'[pc], stimulus'.ev.streamId)
                /\ _remoteStreams'[pc] = Without(_remoteStreams[pc], stimulus'.ev.streamId)
                /\ effects'.dispatched = <<MediaStreamEvent(pc, "removestream",
                        _remoteStreams[pc][FindIndex(_remoteStreams[pc],
                                                     stimulus'.ev.streamId)])>>]_vars

\* C9: no method call and no callback changes signalingState,
\* iceConnectionState or iceGatheringState; each of them changes only in the
\* step that emits the native event of its own kind; close() sends its one
\* request and nothing else.
C9_StateFieldsChangeOnlyOnEvents ==
    [][/\ stimulus'.kind \in {"call", "callback"} =>
            /\ signalingState' = signalingState
            /\ iceConnectionState' = iceConnectionState
            /\ iceGatheringState' = iceGatheringState
       /\ signalingState' # signalingState =>
            IsEvent("peerConnectionSignalingStateChanged")'
       /\ iceConnectionState' # iceConnectionState =>
            IsEvent("peerConnectionIceConnectionChanged")'
       /\ iceGatheringState' # iceGatheringState =>
            IsEvent("peerConnectionIceGatheringChanged")'
       /\ (stimulus'.kind = "call" /\ stimulus'.method = "close") =>
            /\ effects'.requests = <<[method |-> "peerConnectionClose", id |-> stimulus'.id]>>
            /\ _subscriptions' = _subscriptions]_vars

\* C9 witness: close() has just been called on a connected instance, which is
\* still connected and still subscribed.
C9_Witness ==
    /\ stimulus = [kind |-> "call", method |-> "close", id |-> 0]
    /\ iceConnectionState[0] = "connected"
    /\ Active(0)

\* C10: a native event changes no state field and no subscription of an
\* instance whose id it does not carry, and dispatches nothing on it.
C10_OtherInstancesUntouched ==
    [][stimulus'.kind = "event" =>
            \A pc \in Pcs : pc # stimulus'.ev.id =>
                /\ StateOf(pc)' = StateOf(pc)
                /\ _subscriptions'[pc] = _subscriptions[pc]
                /\ ~NotifiedTo(pc)']_vars

\* C10 witness: instance 0 is torn down, and instance 1, still active, has
\* just been notified of an event of its own.
C10_Witness ==
    /\ nextPeerConnectionId >= 2
    /\ _subscriptions[0] = {}
    /\ iceConnectionState[0] = "closed"
    /\ Active(1)
    /\ iceConnectionState[1] = "new"
    /\ IsEvent("peerConnectionSignalingStateChanged")
    /\ stimulus.ev.id = 1
    /\ signalingState[1] = stimulus.ev.signalingState
    /\ effects.dispatched = <<RTCEvent(1, "signalingstatechange")>>

\* The type each listener dispatches.
NotificationOf ==
    [peerConnectionOnRenegotiationNeeded |-> "negotiationneeded",
     peerConnectionIceConnectionChanged |-> "iceconnectionstatechange",
     peerConnectionSignalingStateChanged |-> "signalingstatechange",
     peerConnectionAddedStream |-> "addstream",
     peerConnectionRemovedStream |-> "removestream",
     peerConnectionGotICECandidate |-> "icecandidate",
     peerConnectionIceGatheringChanged |-> "icegatheringstatechange"]

\* C11: a native event emitted with the id of an active instance dispatches
\* exactly one event on that instance, of the type that belongs to the native
\* event, and does so in the very step of its emission: the n-th dispatch is
\* the one of the n-th emission, none dropped, doubled, merged or moved.
C11_OneNotificationPerEvent ==
    [][\A pc \in Pcs :
            (stimulus'.kind = "event" /\ stimulus'.ev.id = pc /\ Active(pc)) =>
                /\ Len(effects'.dispatched) = 1
                /\ effects'.dispatched[1].target = pc
                /\ effects'.dispatched[1].type = NotificationOf[stimulus'.name]
                /\ effects'.dispatched[1].type \in PEER_CONNECTION_EVENTS]_vars

\* C11 witness: an ICE candidate event for the active instance has just
\* dispatched its one 'icecandidate', carrying the candidate.
C11_Witness ==
    /\ IsEvent("peerConnectionGotICECandidate")
    /\ stimulus.ev.id = 0
    /\ Active(0)
    /\ effects.dispatched =
            <<RTCIceCandidateEvent(0, "icecandidate", RTCIceCandidate(stimulus.ev.candidate))>>

\* ---------------------------------------------------------------- getStats
\* The tracks a caller hands to getStats; undefined when it hands none.
StatsTracks == {undefined, MediaStreamTrack([id |-> "t1", kind |-> "audio"])}

\* What the engine passes to the callback of a statistics request.
StatsReports == {[report |-> "r1"], [report |-> "r2"]}

\* track ? track.id : -1
TrackIdOrMinusOne(track) == IF track = undefined THEN -1 ELSE track.id

\* A variant that reports the missing capability through the failure
\* continuation.
getStatsOrFail(pc, track, success, failure, supported) ==
    LET t == Ticket("getStats", pc, undefined, success, failure) IN
    /\ Len(pending) < MaxPending
    /\ stimulus' = [kind |-> "call", method |-> "getStats", id |-> pc, ticket |-> t,
                    supported |-> supported]
    /\ IF supported
       THEN /\ pending' = Append(pending, t)
            /\ effects' = [Quiet EXCEPT !.requests =
                    <<[method |-> "peerConnectionGetStats",
                       trackId |-> TrackIdOrMinusOne(track), id |-> pc]>>]
       ELSE /\ pending' = pending
            /\ effects' = Invoke(t, "failure", <<>>)
    /\ UNCHANGED <<nextPeerConnectionId, fields, emitted>>

\* getStats(track, success, failure), on an engine that has
\* WebRTCModule.peerConnectionGetStats (supported) or lacks it.
getStats(pc, track, success, failure, supported) ==
    LET t == Ticket("getStats", pc, undefined, success, failure) IN
    /\ Len(pending) < MaxPending
    /\ stimulus' = [kind |-> "call", method |-> "getStats", id |-> pc, ticket |-> t,
                    supported |-> supported]
    /\ IF supported
       THEN /\ pending' = Append(pending, t)
            /\ effects' = [Quiet EXCEPT !.requests =
                    <<[method |-> "peerConnectionGetStats",
                       trackId |-> TrackIdOrMinusOne(track), id |-> pc]>>]
       ELSE /\ pending' = pending
            /\ effects' = [Quiet EXCEPT !.warned = TRUE]
    /\ UNCHANGED <<nextPeerConnectionId, fields, emitted>>

\* stats => { success && success(stats); }
getStatsCallback(i, stats) ==
    LET t == pending[i] IN
    /\ t.method = "getStats"
    /\ pending' = Settle(i)
    /\ stimulus' = [kind |-> "callback", ticket |-> t, successful |-> TRUE, data |-> stats]
    /\ effects' = InvokeIfGiven(t, "success", <<stats>>)
    /\ UNCHANGED <<nextPeerConnectionId, fields, emitted>>

\* One peer connection and its statistics requests, between the state-change
\* events.
NextStats ==
    \/ \E pc \in Pcs, track \in StatsTracks, success \in BOOLEAN, failure \in BOOLEAN,
          supported \in BOOLEAN : getStats(pc, track, success, failure, supported)
    \/ \E i \in 1 .. Len(pending), stats \in StatsReports : getStatsCallback(i, stats)
    \/ InboundStates
    \/ \E pc \in Pcs : close(pc)

SpecStats == Init /\ [][NextStats]_vars

\* C12: getStats on an engine without the capability sends no request, calls
\* no continuation, throws nothing, leaves every field and every outstanding
\* request as they were, and only warns; with the capability it sends exactly
\* one request, and the callback hands the engine's report to the success
\* continuation if there is one.
C12_GetStatsDegradesQuietly ==
    [][/\ (stimulus'.kind = "call" /\ stimulus'.method = "getStats") =>
            IF stimulus'.supported
            THEN /\ Len(effects'.requests) = 1
                 /\ effects'.requests[1].method = "peerConnectionGetStats"
                 /\ effects'.requests[1].id = stimulus'.id
                 /\ effects'.continuations = <<>>
                 /\ ~effects'.fault
                 /\ pending' = Append(pending, stimulus'.ticket)
                 /\ fields' = fields
            ELSE /\ effects' = [Quiet EXCEPT !.warned = TRUE]
                 /\ pending' = pending
                 /\ fields' = fields
       /\ (stimulus'.kind = "callback" /\ stimulus'.ticket.method = "getStats") =>
            /\ effects'.continuations =
                    (IF stimulus'.ticket.success
                     THEN Called(stimulus'.ticket, "success", <<stimulus'.data>>)
                     ELSE <<>>)
            /\ ~effects'.fault
            /\ fields' = fields]_vars

\* C12 witness: getStats with both continuations has just been called on an
\* instance in the middle of a negotiation, the engine lacks the capability,
\* and the step did nothing but warn.
C12_Witness ==
    /\ stimulus.kind = "call" /\ stimulus.method = "getStats"
    /\ ~stimulus.supported
    /\ stimulus.ticket.success /\ stimulus.ticket.failure
    /\ signalingState[0] = "have-local-offer"
    /\ pending = <<>>
    /\ effects = [Quiet EXCEPT !.warned = TRUE]

\* C13: addIceCandidate sends its one request whichever continuations are
\* given; when the callback comes, with success or with failure, an omitted
\* continuation is not called and nothing is thrown, a given one is called
\* once, and no field changes.
C13_AddIceCandidateOutcomeDiscarded ==
    [][/\ (stimulus'.kind = "call" /\ stimulus'.method = "addIceCandidate") =>
            /\ Len(effects'.requests) = 1
            /\ effects'.requests[1].method = "peerConnectionAddICECandidate"
            /\ effects'.requests[1].id = stimulus'.id
            /\ pending' = Append(pending, stimulus'.ticket)
            /\ fields' = fields
       /\ (stimulus'.kind = "callback" /\ stimulus'.ticket.method = "addIceCandidate") =>
            LET t == stimulus'.ticket
                which == IF stimulus'.successful THEN "success" ELSE "failure"
            IN  /\ ~effects'.fault
                /\ effects'.continuations =
                        (IF t[which] THEN Called(t, which, <<>>) ELSE <<>>)
                /\ effects'.requests = <<>>
                /\ effects'.dispatched = <<>>
                /\ fields' = fields]_vars

\* C13 witness: the callback of an addIceCandidate made without continuations
\* has just reported failure, and the step did nothing.
C13_Witness ==
    /\ IsCallback("addIceCandidate")
    /\ ~stimulus.ticket.success /\ ~stimulus.ticket.failure
    /\ ~stimulus.successful
    /\ effects = Quiet

\* The last step was a call of close() on instance pc.
IsClose(pc) == stimulus = [kind |-> "call", method |-> "close", id |-> pc]

\* C14 (as claimed): once signalingState is 'closed' it stays 'closed', and a
\* close() called after that does nothing.
C14_SignalingClosedIsTerminal ==
    [][\A pc \in Pcs : signalingState[pc] = "closed" =>
            /\ signalingState'[pc] = "closed"
            /\ IsClose(pc)' => effects' = Quiet]_vars

\* C14 (amended): 'closed' is not terminal here. With signalingState
\* 'closed', a signalingState event for the active instance overwrites the
\* field with the value it carries, nothing else changes the field, and
\* close() still sends its one request and changes no field.
C14_SignalingClosedIsOverwritten ==
    [][\A pc \in Pcs : signalingState[pc] = "closed" =>
            /\ ( /\ IsEvent("peerConnectionSignalingStateChanged")'
                 /\ stimulus'.ev.id = pc
                 /\ Active(pc) ) => signalingState'[pc] = stimulus'.ev.signalingState
            /\ signalingState'[pc] # "closed" =>
                    /\ IsEvent("peerConnectionSignalingStateChanged")'
                    /\ stimulus'.ev.id = pc
            /\ IsClose(pc)' =>
                    /\ effects' = [Quiet EXCEPT !.requests =
                            <<[method |-> "peerConnectionClose", id |-> pc]>>]
                    /\ fields' = fields]_vars

\* C14 witness: close() has just been called on an instance whose
\* signalingState is 'closed', and the request went out.
C14_Witness ==
    /\ IsClose(0)
    /\ signalingState[0] = "closed"
    /\ effects.requests = <<[method |-> "peerConnectionClose", id |-> 0]>>

\* Calls of the methods that hand the engine a callback, by a caller that
\* gives both continuations.
CommandsWithBoth ==
    \/ \E pc \in Pcs : createOffer(pc, TRUE, TRUE)
    \/ \E pc \in Pcs : createAnswer(pc, TRUE, TRUE)
    \/ \E pc \in Pcs, d \in Descriptions : setLocalDescription(pc, d, TRUE, TRUE)
    \/ \E pc \in Pcs, d \in Descriptions : setRemoteDescription(pc, d, TRUE, TRUE)
    \/ \E pc \in Pcs, c \in CandidateInfos :
            addIceCandidate(pc, RTCIceCandidate(c), TRUE, TRUE)

\* One peer connection: the seven native events, every method and every
\* callback, for a caller that gives both continuations.
NextDescriptions ==
    \/ InboundEach
    \/ Outbound
    \/ CommandsWithBoth
    \/ Callbacks

SpecDescriptions == Init /\ [][NextDescriptions]_vars

\* C15: localDescription and remoteDescription are undefined after
\* construction, and each changes only in the step in which the callback of a
\* setLocalDescription (setRemoteDescription) request of the instance reports
\* success, to the description of that request: not when the request is
\* made, not on a native event, not in any other call or callback.
C15_DescriptionsChangeOnlyOnSuccess ==
    /\ \A pc \in Pcs : localDescription[pc] = undefined /\ remoteDescription[pc] = undefined
    /\ [][\A pc \in Pcs :
            /\ localDescription'[pc] # localDescription[pc] =>
                    /\ IsCallback("setLocalDescription")'
                    /\ stimulus'.successful
                    /\ stimulus'.ticket.id = pc
                    /\ localDescription'[pc] = stimulus'.ticket.sessionDescription
            /\ remoteDescription'[pc] # remoteDescription[pc] =>
                    /\ IsCallback("setRemoteDescription")'
                    /\ stimulus'.successful
                    /\ stimulus'.ticket.id = pc
                    /\ remoteDescription'[pc] = stimulus'.ticket.sessionDescription]_vars

\* C15 witness: setLocalDescription has just been called, its request is
\* outstanding, and localDescription is still undefined.
C15_Witness ==
    /\ stimulus.kind = "call" /\ stimulus.method = "setLocalDescription"
    /\ pending = <<stimulus.ticket>>
    /\ localDescription[0] = undefined
    /\ remoteDescription[0] # undefined
    /\ Len(_remoteStreams[0]) > 0

\* C16: the teardown cancels nothing. The step that unregisters an instance
\* leaves the outstanding requests outstanding, and a callback that comes for
\* a torn-down instance does what it does for an active one: it settles the
\* request, calls the continuation of the reported outcome exactly once if
\* the caller gave it, and on success of a set-description request records
\* the description.
C16_TeardownCancelsNothing ==
    [][/\ ( /\ IsEvent("peerConnectionIceConnectionChanged")'
            /\ stimulus'.ev.iceConnectionState = "closed" ) => pending' = pending
       /\ (stimulus'.kind = "callback" /\ _subscriptions[stimulus'.ticket.id] = {}) =>
            LET t == stimulus'.ticket
                which == IF stimulus'.successful THEN "success" ELSE "failure"
            IN  /\ Len(pending') = Len(pending) - 1
                /\ t[which] =>
                        /\ Len(effects'.continuations) = 1
                        /\ effects'.continuations[1].ticket = t
                        /\ effects'.continuations[1].which = which
                /\ (t.method = "setLocalDescription" /\ stimulus'.successful) =>
                        localDescription'[t.id] = t.sessionDescription
                /\ (t.method = "setRemoteDescription" /\ stimulus'.successful) =>
                        remoteDescription'[t.id] = t.sessionDescription]_vars

\* C16 witness: the instance is torn down, and the callback of a
\* setLocalDescription has just reported success, run the success
\* continuation and recorded the description.
C16_Witness ==
    /\ _subscriptions[0] = {}
    /\ iceConnectionState[0] = "closed"
    /\ IsCallback("setLocalDescription")
    /\ stimulus.successful
    /\ effects.continuations = Called(stimulus.ticket, "success", <<>>)
    /\ localDescription[0] = stimulus.ticket.sessionDescription

\* ------------------------------------- overlapping setLocalDescription
\* setLocalDescription called while earlier calls are outstanding: the
\* method (116-125) looks at nothing before it hands the request over.
setLocalDescriptionOverlapping(pc, sessionDescription, success, failure) ==
    LET t == Ticket("setLocalDescription", pc, sessionDescription, success, failure) IN
    /\ Len(pending) < MaxOverlap
    /\ pending' = Append(pending, t)
    /\ stimulus' = [kind |-> "call", method |-> "setLocalDescription", id |-> pc, ticket |-> t]
    /\ effects' = [Quiet EXCEPT !.requests =
            <<[method |-> "peerConnectionSetLocalDescription",
               sessionDescription |-> toJSON(sessionDescription), id |-> pc]>>]
    /\ UNCHANGED <<nextPeerConnectionId, fields, emitted>>

\* Two descriptions a caller can tell apart.
TwoDescriptions ==
    {RTCSessionDescription([type |-> "offer", sdp |-> "v=0 o"]),
     RTCSessionDescription([type |-> "answer", sdp |-> "v=0 a"])}

\* Calls of setLocalDescription, completions of the outstanding ones in any
\* order, and the state-change events.
NextOverlap ==
    \/ \E pc \in Pcs, d \in TwoDescriptions :
            setLocalDescriptionOverlapping(pc, d, TRUE, TRUE)
    \/ \E i \in 1 .. Len(pending), successful \in BOOLEAN :
         \E data \in EngineData(successful) : setLocalDescriptionCallback(i, successful, data)
    \/ InboundStates

SpecOverlap == Init /\ [][NextOverlap]_vars

\* C17: setLocalDescription calls may overlap. A call made while another is
\* outstanding is neither queued nor rejected: it sends its own request at
\* once, joins the outstanding ones and leaves localDescription alone. Each
\* completion acts on its own: a successful one stores the argument of its
\* own call over whatever is stored, a failed one stores nothing, whichever
\* order the engine completes them in; nothing else changes localDescription,
\* so it holds the argument of the successful completion processed last.
C17_LastSuccessfulCompletionWins ==
    [][/\ (stimulus'.kind = "call" /\ stimulus'.method = "setLocalDescription") =>
            LET t == stimulus'.ticket IN
            /\ pending' = Append(pending, t)
            /\ effects'.requests =
                    <<[method |-> "peerConnectionSetLocalDescription",
                       sessionDescription |-> toJSON(t.sessionDescription), id |-> t.id]>>
            /\ effects'.continuations = <<>>
            /\ localDescription' = localDescription
       /\ IsCallback("setLocalDescription")' =>
            LET t == stimulus'.ticket IN
            /\ \E i \in 1 .. Len(pending) : pending[i] = t /\ pending' = Settle(i)
            /\ localDescription' = [localDescription EXCEPT ![t.id] =
                    IF stimulus'.successful THEN t.sessionDescription ELSE @]
       /\ localDescription' # localDescription =>
            IsCallback("setLocalDescription")' /\ stimulus'.successful]_vars

\* C17 witness: two calls with different descriptions overlapped; one of them
\* has just completed successfully and its description is stored, over the
\* description of an earlier completion or over nothing, while the other is
\* still outstanding.
C17_Witness ==
    /\ IsCallback("setLocalDescription")
    /\ stimulus.successful
    /\ Len(pending) = 1
    /\ pending[1].method = "setLocalDescription"
    /\ pending[1].sessionDescription # stimulus.ticket.sessionDescription
    /\ localDescription[0] = stimulus.ticket.sessionDescription

\* The step just taken is the emission of an iceConnectionState 'closed'
\* event with the id of instance pc.
IsClosing(pc) ==
    /\ IsEvent("peerConnectionIceConnectionChanged")
    /\ stimulus.ev.id = pc
    /\ stimulus.ev.iceConnectionState = "closed"

\* C18: an instance has released its subscriptions exactly when an
\* iceConnectionState 'closed' event with its id has been emitted. Nothing
\* else releases them: not close(), not a signalingState 'closed' event. As
\* long as they are held, every native event with the instance's id is
\* notified and a state-change event is assigned, whatever signalingState
\* reads and whether or not close() has been called; and the 'closed' event
\* itself is notified once, to subscribers that read iceConnectionState as
\* 'closed', before the subscriptions go.
C18_TornDownIffIceClosed ==
    /\ [](\A pc \in Pcs : _subscriptions[pc] = {} <=> emitted[pc].closed)
    /\ [][\A pc \in Pcs :
            /\ _subscriptions'[pc] # _subscriptions[pc] => IsClosing(pc)'
            /\ IsClosing(pc)' => _subscriptions'[pc] = {}
            /\ IsClose(pc)' => _subscriptions'[pc] = _subscriptions[pc]
            /\ (Active(pc) /\ stimulus'.kind = "event" /\ stimulus'.ev.id = pc) =>
                    /\ NotifiedTo(pc)'
                    /\ IsEvent("peerConnectionSignalingStateChanged")' =>
                            signalingState'[pc] = stimulus'.ev.signalingState
                    /\ IsEvent("peerConnectionIceGatheringChanged")' =>
                            iceGatheringState'[pc] = stimulus'.ev.iceGatheringState
                    /\ IsEvent("peerConnectionIceConnectionChanged")' =>
                            iceConnectionState'[pc] = stimulus'.ev.iceConnectionState
            /\ (Active(pc) /\ IsClosing(pc)') =>
                    effects'.dispatched =
                        <<[target |-> pc, type |-> "iceconnectionstatechange",
                           iceConnectionState |-> "closed"]>>]_vars

\* C18 witness: signalingState read 'closed' and the instance was still
\* delivered the iceConnectionState 'closed' event: its subscribers were
\* notified and read 'closed', and the subscriptions have just been released.
C18_Witness ==
    /\ signalingState[0] = "closed"
    /\ IsClosing(0)
    /\ NotifiedTo(0)
    /\ effects.dispatched[1].iceConnectionState = "closed"
    /\ iceConnectionState[0] = "closed"
    /\ _subscriptions[0] = {}

\* The request addStream and removeStream send.
StreamRequestOf ==
    [addStream |-> "peerConnectionAddStream", removeStream |-> "peerConnectionRemoveStream"]

\* C19: a call of addStream or removeStream sends one request, which carries
\* the id of the stream and the id of the instance, and nothing else: it
\* dispatches nothing, leaves _remoteStreams, the state fields and the
\* subscriptions of every instance as they were, also when the stream's id is
\* the id of a stream held in _remoteStreams. _remoteStreams changes only in
\* the step of a stream-added or stream-removed native event.
C19_OutboundStreamsOnlySend ==
    [][/\ ( /\ stimulus'.kind = "call"
            /\ stimulus'.method \in {"addStream", "removeStream"} ) =>
                /\ effects' = [Quiet EXCEPT !.requests =
                        <<[method |-> StreamRequestOf[stimulus'.method],
                           streamId |-> stimulus'.stream.id,
                           id |-> stimulus'.id]>>]
                /\ \A pc \in Pcs : StateOf(pc)' = StateOf(pc)
                /\ _subscriptions' = _subscriptions
       /\ _remoteStreams' # _remoteStreams =>
                \/ IsEvent("peerConnectionAddedStream")'
                \/ IsEvent("peerConnectionRemovedStream")']_vars

\* C19 witness: removeStream has just been called with a stream whose id is
\* the id of a stream of _remoteStreams, and that stream is still held.
C19_Witness ==
    /\ stimulus.kind = "call"
    /\ stimulus.method = "removeStream"
    /\ stimulus.id = 0
    /\ Holds(_remoteStreams[0], stimulus.stream.id)
    /\ Len(effects.requests) = 1

\* The ids of the instances constructed so far, active or torn down.
Constructed == DOMAIN _subscriptions

\* C20: ids come from a counter that never decreases. A construction takes
\* the counter's value as the id of the new instance and adds one to the
\* counter, so the id is the id of no instance constructed before, active or
\* torn down, and every id in use is below the counter; the new instance is
\* subscribed and the earlier ones are left as they were. No other step moves
\* the counter. A native event is therefore dispatched on no instance but the
\* one whose id it carries.
C20_IdsAreNeverReused ==
    /\ [](\A pc \in Constructed : pc < nextPeerConnectionId)
    /\ [][/\ nextPeerConnectionId' >= nextPeerConnectionId
          /\ stimulus'.kind = "new" =>
                /\ stimulus'.id = nextPeerConnectionId
                /\ nextPeerConnectionId' = nextPeerConnectionId + 1
                /\ stimulus'.id \notin Constructed
                /\ Constructed' = Constructed \cup {stimulus'.id}
                /\ _subscriptions'[stimulus'.id] = NativeEvents
                /\ effects'.requests[1].id = stimulus'.id
                /\ \A pc \in Constructed :
                        /\ StateOf(pc)' = StateOf(pc)
                        /\ _subscriptions'[pc] = _subscriptions[pc]
          /\ stimulus'.kind # "new" =>
                /\ nextPeerConnectionId' = nextPeerConnectionId
                /\ Constructed' = Constructed
          /\ stimulus'.kind = "event" =>
                \A i \in 1 .. Len(effects'.dispatched) :
                    effects'.dispatched[i].target = stimulus'.ev.id]_vars

\* C20 witness: the first instance has been torn down, and a second one has
\* just been constructed with another id and is subscribed.
C20_Witness ==
    /\ stimulus = [kind |-> "new", id |-> 1]
    /\ nextPeerConnectionId = 2
    /\ _subscriptions[0] = {}
    /\ iceConnectionState[0] = "closed"
    /\ Active(1)

====
